---- MODULE Spec2Model ----
(***************************************************************************)
(* Model of the single-run execution controller of the Robot Framework     *)
(* backend (src/robotframework_backend/src/api/robot_runner.py) together   *)
(* with the repository calls it makes (src/db/repositories.py) and the     *)
(* HTTP handlers that drive it (src/api/routes.py).                        *)
(*                                                                         *)
(* Scheduling: the controller runs on one asyncio event loop.  A coroutine *)
(* is preempted only at an await, so the code between two awaits of the    *)
(* execution task runs without any request handler or log stream running   *)
(* in between.  The model keeps the task's steps separate (the database    *)
(* commits are visible one by one) and guards every event-loop actor with  *)
(* LoopIdle, which holds when every task is parked at an await.            *)
(***************************************************************************)
EXTENDS Integers, Sequences, FiniteSets, TLC

\* ---------------------------------------------------------------- bounds
\* starts, loop iterations requested, exceptions raised, case results recorded
\* and log streams opened, summed
MaxWork == 5

None == 0           \* Python None for identifiers and paths

VARIABLES
    proc_task,        \* _proc_task: index into tasks of the latest task, None before the first
    stop_event,       \* _stop_event.is_set()
    current_run_id,   \* _current_run_id
    current_log_file, \* _current_log_file: the log directory's timestamp, None at first
    tasks,            \* every execution task ever created, in creation order
    runs,             \* test_runs table: runs[id]
    batch_logs,       \* batch_logs table
    fail_logs,        \* fail_logs table
    case_results,     \* test_case_results table
    log_dirs,         \* log directories that exist under LOG_DIR
    log_files,        \* log_files[ts]: lines of run_<ts>/runner.log (empty: no file)
    clock,            \* datetime.utcnow() truncated to seconds
    streams,          \* stream_log generators, in the order they were opened
    faults,           \* exceptions raised in the tasks so far
    cfg_files,        \* files under and beside CONFIG_DIR: cfg_files[abs_path]
    cfg_dirs,         \* directories created by write_config
    cfg_write,        \* the write_config call in progress
    cfg_reply,        \* the answer to the latest config request
    expected_total,   \* _expected_total
    app_state,        \* _state.state: the stored UI/app state map
    sync_reply        \* the latest sync_state call: its argument and the map returned

vars == <<proc_task, stop_event, current_run_id, current_log_file, tasks, runs,
          batch_logs, fail_logs, case_results, log_dirs, log_files, clock,
          streams, faults, cfg_files, cfg_dirs, cfg_write, cfg_reply, expected_total,
          app_state, sync_reply>>

ctl == <<proc_task, stop_event, current_run_id, current_log_file>>
db == <<runs, batch_logs, fail_logs, case_results>>
fs == <<log_dirs, log_files>>
io == <<faults>>
cfg == <<cfg_files, cfg_dirs, cfg_write, cfg_reply>>
ui == <<app_state, sync_reply>>
svc == <<cfg, expected_total, ui>>

Loops == {-1} \cup (1..MaxWork)     \* loop values of a request: negative, or positive
Timestamps == 1..MaxWork            \* wall-clock seconds at which a run can start
StreamIds == 1..MaxWork
Terminal == {"passed", "failed", "stopped", "error"}
CaseStatus == {"passed", "failed", "skipped"}

\* pcs at which a task is parked at an await (or not running at all)
Parked == {"created", "invoking", "sleeping", "done"}

TaskIds == 1..Len(tasks)

\* the event loop is free: no task is in the middle of a synchronous stretch
LoopIdle == \A t \in TaskIds : tasks[t].pc \in Parked

\* ------------------------------------------------------------ repository
\* create_test_run: a new row with status 'running'; the id is the row number
CreateTestRun(rs, project, suite_name, total_cases, logs_path, now) ==
    Append(rs, [project |-> project, suite_name |-> suite_name, start_time |-> now,
                status |-> "running", passed |-> 0, failed |-> 0,
                end_time |-> None, total_cases |-> total_cases,
                logs_path |-> logs_path])

\* a finalize that also sets total_cases to the number of counted cases
FinalizeTestRun_SetsTotal(rs, run_id, status, passed, failed, now) ==
    IF run_id \notin DOMAIN rs THEN rs
    ELSE [rs EXCEPT ![run_id] = [@ EXCEPT !.end_time = now, !.status = status,
                                          !.passed = passed, !.failed = failed,
                                          !.total_cases = passed + failed]]

\* finalize_test_run: no row, no change; otherwise end_time, status, counts
FinalizeTestRun(rs, run_id, status, passed, failed, now) ==
    IF run_id \notin DOMAIN rs THEN rs
    ELSE [rs EXCEPT ![run_id] = [@ EXCEPT !.end_time = now, !.status = status,
                                          !.passed = passed, !.failed = failed]]

\* get_run_stats: (total_cases, passed, failed), nothing for an unknown run
GetRunStats(rs, run_id) ==
    IF run_id \notin DOMAIN rs THEN <<>>
    ELSE <<rs[run_id].total_cases, rs[run_id].passed, rs[run_id].failed>>

AddBatchLog(bl, run_id, message, p, f) ==
    Append(bl, [run_id |-> run_id, message |-> message, passed |-> p, failed |-> f])

AddFailLog(fl, run_id, error_type) ==
    Append(fl, [run_id |-> run_id, error_type |-> error_type])

\* add_fail_log on Session(db.connection()): the inner session joins the
\* transaction the outer session has begun on that connection, so its commit
\* is not propagated; the outer session is closed without a commit and the
\* row is rolled back.
AddFailLogJoined(fl, run_id, error_type) == fl

AddCaseResult(cr, run_id, status) == Append(cr, [run_id |-> run_id, status |-> status])

CountWhere(cr, run_id, S) ==
    Cardinality({k \in DOMAIN cr : cr[k].run_id = run_id /\ cr[k].status \in S})

\* count_case_status: (passed, failed, total) over the run's case results
CountCaseStatus(cr, run_id) ==
    <<CountWhere(cr, run_id, {"passed"}), CountWhere(cr, run_id, {"failed"}),
      CountWhere(cr, run_id, CaseStatus)>>

\* ------------------------------------------------------------ controller
\* write_line: append one line to the runner.log of the task's log directory
WriteLine(lf, dir, run_id, msg) ==
    [lf EXCEPT ![dir] = Append(@, [run |-> run_id, msg |-> msg])]

\* "Robot finished with rc={rc} in ...": the line names the exit code
RcLine(rc) == IF rc = 0 THEN "rc=0" ELSE "rc=1"

\* range(loop or 1)
LoopCount(loop) == IF loop = 0 THEN 1 ELSE IF loop < 0 THEN 0 ELSE loop

RECURSIVE SumIter(_)
SumIter(n) == IF n = 0 THEN 0 ELSE tasks[n].iters + SumIter(n - 1)

\* run() without the in-progress check
IsRunning_Unchecked == FALSE

\* self._proc_task and not self._proc_task.done()
IsRunning == proc_task # None /\ tasks[proc_task].pc # "done"

\* iterations requested by the starts so far
Requested == SumIter(Len(tasks))

\* what has been explored so far
Work == Len(tasks) + Requested + faults + Len(case_results) + Len(streams)

NewTask(log_dir, loop, batch, started) ==
    [pc |-> "created", run_id |-> None, started |-> started, log_dir |-> log_dir,
     iters |-> LoopCount(loop), loop |-> loop, batch |-> batch, i |-> 0, rc |-> 0,
     passed_total |-> 0, failed_total |-> 0, exc |-> "none"]

\* start_run: the controller's result is answered 200, a RuntimeError 409
RunAnswer(kind, run_id) ==
    [op |-> "run", kind |-> kind, run_id |-> run_id,
     http |-> IF kind = "AlreadyRunning" THEN 409 ELSE 200]

\* stop_run: StopResponse(run_id, stopped)
StopAnswer(stopped, run_id) ==
    [op |-> "stop", kind |-> IF stopped THEN "stopped" ELSE "not_stopped",
     run_id |-> run_id, http |-> 200]

\* what run() / POST /run answers in the current state
RunResult ==
    IF IsRunning THEN RunAnswer("AlreadyRunning", None)
    ELSE RunAnswer("running", Len(runs) + 1)

\* what stop() / POST /stop answers in the current state
StopResult == StopAnswer(IsRunning, current_run_id)

\* a rejected start that has already cleared the cancellation flag
StartRejected_ClearsFlag ==
    /\ LoopIdle
    /\ RunResult.kind = "AlreadyRunning"
    /\ stop_event' = FALSE
    /\ UNCHANGED <<proc_task, current_run_id, current_log_file, tasks, db, fs, clock,
                   streams, faults, svc>>

\* run() while a task is in progress: RuntimeError before any assignment
StartRejected ==
    /\ LoopIdle
    /\ RunResult.kind = "AlreadyRunning"
    /\ UNCHANGED vars

\* datetime.utcnow() at a start: the second of the previous start, or a later one
StartTimes == {ts \in {clock, clock + 1} : ts >= 1}

\* run() without _stop_event.clear()
StartOk_KeepsFlag(ts, loop, batch) ==
    /\ LoopIdle
    /\ RunResult.kind = "running"
    /\ Work + 1 + LoopCount(loop) <= MaxWork
    /\ clock' = ts
    /\ log_dirs' = log_dirs \cup {ts}
    /\ current_log_file' = ts
    /\ runs' = CreateTestRun(runs, None, None, 0, ts, ts)
    /\ current_run_id' = Len(runs')
    /\ stop_event' = stop_event
    /\ tasks' = Append(tasks, NewTask(ts, loop, batch, Len(runs')))
    /\ proc_task' = Len(tasks')
    /\ UNCHANGED <<batch_logs, fail_logs, case_results, log_files, streams, faults, svc>>

\* run(): log directory, Run record, flag cleared, task created; project and
\* suite are left at their default, they only reach the row and the command line
StartOk(ts, loop, batch) ==
    /\ LoopIdle
    /\ RunResult.kind = "running"
    /\ Work + 1 + LoopCount(loop) <= MaxWork
    /\ clock' = ts
    /\ log_dirs' = log_dirs \cup {ts}
    /\ current_log_file' = ts
    /\ runs' = CreateTestRun(runs, None, None, 0, ts, ts)
    /\ current_run_id' = Len(runs')
    /\ stop_event' = FALSE
    /\ tasks' = Append(tasks, NewTask(ts, loop, batch, Len(runs')))
    /\ proc_task' = Len(tasks')
    /\ UNCHANGED <<batch_logs, fail_logs, case_results, log_files, streams, faults, svc>>

\* stop()
Stop ==
    /\ LoopIdle
    /\ stop_event' = (StopResult.kind = "stopped" \/ stop_event)
    /\ UNCHANGED <<proc_task, current_run_id, current_log_file, tasks, db, fs, clock,
                   streams, faults, svc>>

\* get_current_run() with the done() test inverted
GetCurrentRun_Inverted == IF ~IsRunning THEN current_run_id ELSE None

\* get_current_run()
GetCurrentRun == IF IsRunning THEN current_run_id ELSE None

\* ------------------------------------------------------- execution task
\* a completed task: its locals are gone, its outcome stays
Completed(r) ==
    [NewTask(None, 0, FALSE, r.started) EXCEPT !.pc = "done", !.run_id = r.run_id,
                                               !.iters = r.iters, !.exc = r.exc]

SetTask(t, r) == [tasks EXCEPT ![t] = r]

\* a task that takes the id of the run before the one in the shared field
TaskBegin_PreviousRun(t) ==
    /\ LoopIdle
    /\ tasks[t].pc = "created"
    /\ IF current_run_id = None
       THEN tasks' = SetTask(t, Completed(tasks[t]))
       ELSE tasks' = SetTask(t, [tasks[t] EXCEPT
                         !.pc = "loop_top",
                         !.run_id = IF current_run_id > 1 THEN current_run_id - 1
                                    ELSE current_run_id,
                         !.passed_total = 0, !.failed_total = 0])
    /\ log_dirs' = IF current_run_id = None THEN log_dirs ELSE log_dirs \cup {tasks[t].log_dir}
    /\ UNCHANGED <<ctl, db, log_files, clock, streams, io, svc>>

\* _execute_robot up to the try: read the run id, early return when it is empty
TaskBegin(t) ==
    /\ LoopIdle
    /\ tasks[t].pc = "created"
    /\ IF current_run_id = None
       THEN tasks' = SetTask(t, Completed(tasks[t]))
       ELSE tasks' = SetTask(t, [tasks[t] EXCEPT !.pc = "loop_top", !.run_id = current_run_id,
                                                 !.passed_total = 0, !.failed_total = 0])
    /\ log_dirs' = IF current_run_id = None THEN log_dirs ELSE log_dirs \cup {tasks[t].log_dir}
    /\ UNCHANGED <<ctl, db, log_files, clock, streams, io, svc>>

\* the loop without the test of the cancellation flag
LoopTop_IgnoresStop(t) ==
    /\ tasks[t].pc = "loop_top"
    /\ IF tasks[t].i >= LoopCount(tasks[t].loop)
       THEN /\ tasks' = SetTask(t, [tasks[t] EXCEPT !.pc = "finalize"])
            /\ log_files' = log_files
       ELSE /\ tasks' = SetTask(t, [tasks[t] EXCEPT !.pc = "invoking"])
            /\ log_files' = WriteLine(log_files, tasks[t].log_dir, tasks[t].run_id, "start")
    /\ UNCHANGED <<ctl, db, log_dirs, clock, streams, io, svc>>

\* for i in range(loop or 1): exhausted, stop requested, or start the invocation
LoopTop(t) ==
    /\ tasks[t].pc = "loop_top"
    /\ IF tasks[t].i >= LoopCount(tasks[t].loop)
       THEN /\ tasks' = SetTask(t, [tasks[t] EXCEPT !.pc = "finalize"])
            /\ log_files' = log_files
       ELSE IF stop_event
       THEN /\ tasks' = SetTask(t, [tasks[t] EXCEPT !.pc = "finalize"])
            /\ log_files' = WriteLine(log_files, tasks[t].log_dir, tasks[t].run_id, "stop")
       ELSE /\ tasks' = SetTask(t, [tasks[t] EXCEPT !.pc = "invoking"])
            /\ log_files' = WriteLine(log_files, tasks[t].log_dir, tasks[t].run_id, "start")
    /\ UNCHANGED <<ctl, db, log_dirs, clock, streams, io, svc>>

\* the runner records a case result while the invocation is in progress
RecordCase(t, status) ==
    /\ tasks[t].pc = "invoking"
    /\ LoopIdle
    /\ Work < MaxWork
    /\ case_results' = AddCaseResult(case_results, tasks[t].run_id, status)
    /\ UNCHANGED <<ctl, tasks, runs, batch_logs, fail_logs, fs, clock, streams, io, svc>>

\* rc = await asyncio.to_thread(run_cli, args) returns
InvokeReturn(t, rc) ==
    /\ LoopIdle
    /\ tasks[t].pc = "invoking"
    /\ tasks' = SetTask(t, [tasks[t] EXCEPT !.pc = "record", !.rc = rc])
    /\ log_files' = WriteLine(log_files, tasks[t].log_dir, tasks[t].run_id, RcLine(rc))
    /\ UNCHANGED <<ctl, db, log_dirs, clock, streams, io, svc>>

\* the invocation raises an Exception: caught by `except Exception`
InvokeRaise(t) ==
    /\ LoopIdle
    /\ Work < MaxWork
    /\ faults' = faults + 1
    /\ tasks[t].pc = "invoking"
    /\ tasks' = SetTask(t, [tasks[t] EXCEPT !.pc = "handler", !.exc = "caught"])
    /\ UNCHANGED <<ctl, db, fs, clock, streams, svc>>

\* the await raises a BaseException that is not an Exception (SystemExit from
\* run_cli, CancelledError): only the finally clause runs
InvokeExit(t) ==
    /\ LoopIdle
    /\ Work < MaxWork
    /\ faults' = faults + 1
    /\ tasks[t].pc = "invoking"
    /\ tasks' = SetTask(t, [tasks[t] EXCEPT !.pc = "finally", !.exc = "escaped"])
    /\ UNCHANGED <<ctl, db, fs, clock, streams, svc>>

\* a fallback that takes a nonzero exit code for a pass
IterCounts_Swapped(cr, run_id, rc) ==
    LET c == CountCaseStatus(cr, run_id)
    IN IF c[3] = 0 THEN (IF rc = 0 THEN <<0, 1, 1>> ELSE <<1, 0, 1>>) ELSE c

\* p, f, total of the iteration: recorded counts, or one data point from rc
IterCounts(cr, run_id, rc) ==
    LET c == CountCaseStatus(cr, run_id)
    IN IF c[3] = 0 THEN (IF rc = 0 THEN <<1, 0, 1>> ELSE <<0, 1, 1>>) ELSE c

\* count_case_status, totals, add_batch_log; rc is not read again before the
\* next invocation assigns it
RecordCounts(t) ==
    /\ tasks[t].pc = "record"
    /\ LET c == IterCounts(case_results, tasks[t].run_id, tasks[t].rc)
       IN /\ tasks' = SetTask(t, [tasks[t] EXCEPT
                         !.rc = 0,
                         !.passed_total = @ + c[1], !.failed_total = @ + c[2],
                         !.pc = IF c[2] > 0 THEN "record_fail" ELSE "iter_end"])
          /\ batch_logs' = AddBatchLog(batch_logs, tasks[t].run_id, "loop", c[1], c[2])
    /\ UNCHANGED <<ctl, runs, fail_logs, case_results, fs, clock, streams, io, svc>>

\* count_case_status raises: nothing recorded
RecordCountsRaise(t) ==
    /\ Work < MaxWork
    /\ faults' = faults + 1
    /\ tasks[t].pc = "record"
    /\ tasks' = SetTask(t, [tasks[t] EXCEPT !.pc = "handler", !.exc = "caught", !.rc = 0])
    /\ UNCHANGED <<ctl, db, fs, clock, streams, svc>>

\* add_batch_log raises: the totals are already updated
BatchLogRaise(t) ==
    /\ Work < MaxWork
    /\ faults' = faults + 1
    /\ tasks[t].pc = "record"
    /\ LET c == IterCounts(case_results, tasks[t].run_id, tasks[t].rc)
       IN tasks' = SetTask(t, [tasks[t] EXCEPT
                         !.rc = 0,
                         !.passed_total = @ + c[1], !.failed_total = @ + c[2],
                         !.pc = "handler", !.exc = "caught"])
    /\ UNCHANGED <<ctl, db, fs, clock, streams, svc>>

\* if f > 0: add_fail_log(..., error_type="RobotFailure")
RecordFail(t) ==
    /\ tasks[t].pc = "record_fail"
    /\ fail_logs' = AddFailLog(fail_logs, tasks[t].run_id, "RobotFailure")
    /\ tasks' = SetTask(t, [tasks[t] EXCEPT !.pc = "iter_end"])
    /\ UNCHANGED <<ctl, runs, batch_logs, case_results, fs, clock, streams, io, svc>>

RecordFailRaise(t) ==
    /\ Work < MaxWork
    /\ faults' = faults + 1
    /\ tasks[t].pc = "record_fail"
    /\ tasks' = SetTask(t, [tasks[t] EXCEPT !.pc = "handler", !.exc = "caught"])
    /\ UNCHANGED <<ctl, db, fs, clock, streams, svc>>

\* if batch and i < (loop - 1): write a line and sleep; else next iteration
IterEnd(t) ==
    /\ tasks[t].pc = "iter_end"
    /\ IF tasks[t].batch /\ tasks[t].i < tasks[t].loop - 1
       THEN /\ tasks' = SetTask(t, [tasks[t] EXCEPT !.pc = "sleeping"])
            /\ log_files' = WriteLine(log_files, tasks[t].log_dir, tasks[t].run_id, "batch")
       ELSE /\ tasks' = SetTask(t, [tasks[t] EXCEPT !.pc = "loop_top", !.i = @ + 1])
            /\ log_files' = log_files
    /\ UNCHANGED <<ctl, db, log_dirs, clock, streams, io, svc>>

\* await asyncio.sleep(1.0) returns
SleepDone(t) ==
    /\ LoopIdle
    /\ tasks[t].pc = "sleeping"
    /\ tasks' = SetTask(t, [tasks[t] EXCEPT !.pc = "loop_top", !.i = @ + 1])
    /\ UNCHANGED <<ctl, db, fs, clock, streams, io, svc>>

\* final status with the failure test ahead of the cancellation test
\* a final status that does not look at the cancellation flag
FinalStatus_IgnoresStop(flag, failed_total) ==
    IF failed_total > 0 THEN "failed" ELSE "passed"

FinalStatus_FailureFirst(flag, failed_total) ==
    IF failed_total > 0 THEN "failed" ELSE (IF flag THEN "stopped" ELSE "passed")

\* final_status = "stopped" if flag set else ("failed" if failed_total > 0 else "passed")
FinalStatus(flag, failed_total) ==
    IF flag THEN "stopped" ELSE (IF failed_total > 0 THEN "failed" ELSE "passed")

\* finalize_test_run(db, run_id, status=final_status, ...)
Finalize(t) ==
    /\ tasks[t].pc = "finalize"
    /\ LET fin == FinalStatus(stop_event, tasks[t].failed_total)
       IN /\ runs' = FinalizeTestRun(runs, tasks[t].run_id, fin,
                                     tasks[t].passed_total, tasks[t].failed_total, clock)
          /\ tasks' = SetTask(t, [tasks[t] EXCEPT !.pc = "final_log"])
    /\ UNCHANGED <<ctl, batch_logs, fail_logs, case_results, fs, clock, streams, io, svc>>

FinalizeRaise(t) ==
    /\ Work < MaxWork
    /\ faults' = faults + 1
    /\ tasks[t].pc = "finalize"
    /\ tasks' = SetTask(t, [tasks[t] EXCEPT !.pc = "handler", !.exc = "caught"])
    /\ UNCHANGED <<ctl, db, fs, clock, streams, svc>>

\* add_batch_log(db, run_id, "Run finalized with status=...")
FinalLog(t) ==
    /\ tasks[t].pc = "final_log"
    /\ batch_logs' = AddBatchLog(batch_logs, tasks[t].run_id, "final",
                                 tasks[t].passed_total, tasks[t].failed_total)
    /\ tasks' = SetTask(t, [tasks[t] EXCEPT !.pc = "finally"])
    /\ UNCHANGED <<ctl, runs, fail_logs, case_results, fs, clock, streams, io, svc>>

\* that add_batch_log raises after the finalize has been committed
FinalLogRaise(t) ==
    /\ Work < MaxWork
    /\ faults' = faults + 1
    /\ tasks[t].pc = "final_log"
    /\ tasks' = SetTask(t, [tasks[t] EXCEPT !.pc = "handler", !.exc = "caught"])
    /\ UNCHANGED <<ctl, db, fs, clock, streams, svc>>

\* except Exception: add_fail_log(Session(db.connection()), ...), write_line
Handler(t) ==
    /\ tasks[t].pc = "handler"
    /\ fail_logs' = AddFailLogJoined(fail_logs, tasks[t].run_id, "RunnerError")
    /\ log_files' = WriteLine(log_files, tasks[t].log_dir, tasks[t].run_id, "exception")
    /\ tasks' = SetTask(t, [tasks[t] EXCEPT !.pc = "handler_finalize"])
    /\ UNCHANGED <<ctl, runs, batch_logs, case_results, log_dirs, clock, streams, io, svc>>

\* the handler's add_fail_log raises: the exception leaves the handler
HandlerRaise(t) ==
    /\ Work < MaxWork
    /\ faults' = faults + 1
    /\ tasks[t].pc = "handler"
    /\ tasks' = SetTask(t, [tasks[t] EXCEPT !.pc = "finally", !.exc = "escaped"])
    /\ UNCHANGED <<ctl, db, fs, clock, streams, svc>>

\* finalize_test_run(db, run_id, status="error", ...)
HandlerFinalize(t) ==
    /\ tasks[t].pc = "handler_finalize"
    /\ runs' = FinalizeTestRun(runs, tasks[t].run_id, "error",
                               tasks[t].passed_total, tasks[t].failed_total, clock)
    /\ tasks' = SetTask(t, [tasks[t] EXCEPT !.pc = "finally"])
    /\ UNCHANGED <<ctl, batch_logs, fail_logs, case_results, fs, clock, streams, io, svc>>

HandlerFinalizeRaise(t) ==
    /\ Work < MaxWork
    /\ faults' = faults + 1
    /\ tasks[t].pc = "handler_finalize"
    /\ tasks' = SetTask(t, [tasks[t] EXCEPT !.pc = "finally", !.exc = "escaped"])
    /\ UNCHANGED <<ctl, db, fs, clock, streams, svc>>

\* the run id cleared at the end of the try body instead of in a finally clause
Finally_SkipOnError(t) ==
    /\ tasks[t].pc = "finally"
    /\ current_run_id' = IF tasks[t].exc = "none" THEN None ELSE current_run_id
    /\ tasks' = SetTask(t, Completed(tasks[t]))
    /\ UNCHANGED <<proc_task, stop_event, current_log_file, db, fs, clock, streams, io, svc>>

\* a finally clause that leaves the run id in place
Finally_KeepRunId(t) ==
    /\ tasks[t].pc = "finally"
    /\ tasks' = SetTask(t, Completed(tasks[t]))
    /\ UNCHANGED <<ctl, db, fs, clock, streams, io, svc>>

\* a finally clause that clears the cancellation flag with the run id
Finally_ClearsFlag(t) ==
    /\ tasks[t].pc = "finally"
    /\ current_run_id' = None
    /\ stop_event' = FALSE
    /\ tasks' = SetTask(t, Completed(tasks[t]))
    /\ UNCHANGED <<proc_task, current_log_file, db, fs, clock, streams, io, svc>>

\* finally: self._current_run_id = None; the task is done
Finally(t) ==
    /\ tasks[t].pc = "finally"
    /\ current_run_id' = None
    /\ tasks' = SetTask(t, Completed(tasks[t]))
    /\ UNCHANGED <<proc_task, stop_event, current_log_file, db, fs, clock, streams, io, svc>>

\* -------------------------------------------------------------- log stream
\* stream_log up to its first yield: placeholder, or open and seek to the end
\* a stream that opens the file without seeking to its end
StreamOpen_FromStart ==
    /\ LoopIdle
    /\ Work < MaxWork
    /\ IF current_log_file = None \/ Len(log_files[current_log_file]) = 0
       THEN streams' = Append(streams, [pc |-> "placeholder", file |-> None,
                                        pos |-> 0, chunks |-> 1])
       ELSE streams' = Append(streams, [pc |-> "open", file |-> current_log_file,
                                        pos |-> 0, chunks |-> 0])
    /\ UNCHANGED <<ctl, tasks, db, fs, clock, io, svc>>

\* stream_log: placeholder when there is no log file, else open it at its end
StreamOpen ==
    /\ LoopIdle
    /\ Work < MaxWork
    /\ IF current_log_file = None \/ Len(log_files[current_log_file]) = 0
       THEN streams' = Append(streams, [pc |-> "placeholder", file |-> None,
                                        pos |-> 0, chunks |-> 1])
       ELSE streams' = Append(streams, [pc |-> "open", file |-> current_log_file,
                                        pos |-> Len(log_files[current_log_file]),
                                        chunks |-> 0])
    /\ UNCHANGED <<ctl, tasks, db, fs, clock, io, svc>>

\* a placeholder branch without the return: the message is yielded again
StreamPlaceholderEnd_Repeat(s) ==
    /\ LoopIdle
    /\ streams[s].pc = "placeholder"
    /\ streams[s].chunks < MaxWork
    /\ streams' = [streams EXCEPT ![s].chunks = @ + 1]
    /\ UNCHANGED <<ctl, tasks, db, fs, clock, io, svc>>

\* the consumer asks for the next chunk after the placeholder: the generator returns
StreamPlaceholderEnd(s) ==
    /\ LoopIdle
    /\ streams[s].pc = "placeholder"
    /\ streams' = [streams EXCEPT ![s].pc = "ended"]
    /\ UNCHANGED <<ctl, tasks, db, fs, clock, io, svc>>

\* readline() returned a line: one chunk
StreamEmit(s) ==
    /\ LoopIdle
    /\ streams[s].pc = "open"
    /\ streams[s].pos < Len(log_files[streams[s].file])
    /\ streams' = [streams EXCEPT ![s].pos = @ + 1, ![s].chunks = @ + 1]
    /\ UNCHANGED <<ctl, tasks, db, fs, clock, io, svc>>

\* the break condition of stream_log at end of file
StreamMayEnd == stop_event /\ (proc_task = None \/ tasks[proc_task].pc = "done")

\* a stream that ends as soon as it finds no line to read
StreamEnd_Eager(s) ==
    /\ LoopIdle
    /\ streams[s].pc = "open"
    /\ streams[s].pos >= Len(log_files[streams[s].file])
    /\ streams' = [streams EXCEPT ![s].pc = "ended"]
    /\ UNCHANGED <<ctl, tasks, db, fs, clock, io, svc>>

\* readline() returned nothing and the break condition holds
StreamEnd(s) ==
    /\ LoopIdle
    /\ streams[s].pc = "open"
    /\ streams[s].pos >= Len(log_files[streams[s].file])
    /\ StreamMayEnd
    /\ streams' = [streams EXCEPT ![s].pc = "ended"]
    /\ UNCHANGED <<ctl, tasks, db, fs, clock, io, svc>>

\* readline() returned nothing and the break condition fails: sleep, retry
StreamWait(s) ==
    /\ LoopIdle
    /\ streams[s].pc = "open"
    /\ streams[s].pos >= Len(log_files[streams[s].file])
    /\ ~StreamMayEnd
    /\ UNCHANGED vars

\* ------------------------------------------------------------ config store
\* A path is a sequence of names and a name a sequence of characters, so that
\* the string prefix test of _resolve_path can be computed on the path string.
CONFIG_DIR == << <<"c">> >>                 \* settings.CONFIG_DIR: /c
DotDot == <<".", ".">>
Dot == <<".">>
FileJson == <<"a", ".", "j">>               \* a.json  (".j" stands for .json)
FileJsonUpper == <<"a", ".", "J">>          \* a.JSON
FileYaml == <<"a", ".", "y">>               \* a.yaml
FileTxt == <<"a", ".", "t">>                \* a.txt
SubDir == <<"s">>
SiblingDir == <<"c", "x">>                  \* /cx: its name begins with the root's
OtherDir == <<"d">>

\* relative paths of the requests
RelPaths ==
    { [abs |-> FALSE, parts |-> <<FileJson>>],
      [abs |-> FALSE, parts |-> <<FileYaml>>],
      [abs |-> FALSE, parts |-> <<FileTxt>>],
      [abs |-> FALSE, parts |-> <<Dot, SubDir, FileJsonUpper>>],
      [abs |-> FALSE, parts |-> <<DotDot, SiblingDir, FileJson>>],
      [abs |-> FALSE, parts |-> <<DotDot, OtherDir, FileJson>>],
      [abs |-> TRUE, parts |-> <<OtherDir, FileJson>>] }

Docs == {"d1", "d2"}        \* documents a caller writes
DocChunks == 2              \* pieces in which a document reaches the file

\* os.path.abspath: '.' dropped, '..' removes the name before it
RECURSIVE NormPath(_, _)
NormPath(parts, acc) ==
    IF parts = <<>> THEN acc
    ELSE LET h == Head(parts)
         IN NormPath(Tail(parts),
                     IF h = Dot THEN acc
                     ELSE IF h = DotDot
                     THEN (IF acc = <<>> THEN acc ELSE SubSeq(acc, 1, Len(acc) - 1))
                     ELSE Append(acc, h))

\* os.path.abspath(os.path.join(base, rel_path)): an absolute rel_path replaces base
AbsPath(base, rel) == NormPath(IF rel.abs THEN rel.parts ELSE base \o rel.parts, <<>>)

\* the path as a string of characters
RECURSIVE PathStr(_)
PathStr(path) ==
    IF path = <<>> THEN <<>> ELSE <<"/">> \o Head(path) \o PathStr(Tail(path))

\* str.startswith
StartsWith(str, prefix) ==
    Len(str) >= Len(prefix) /\ SubSeq(str, 1, Len(prefix)) = prefix

\* str.lower on the characters used here
Lower(ch) == IF ch = "J" THEN "j" ELSE ch

\* os.path.splitext(abs_path)[1].lower(): from the last dot of the last name
SplitExt(path) ==
    IF path = <<>> THEN <<>>
    ELSE LET name == path[Len(path)]
             dots == {k \in 2..Len(name) : name[k] = "."}
         IN IF dots = {} THEN <<>>
            ELSE LET k == CHOOSE d \in dots : \A e \in dots : e <= d
                 IN [j \in 1..(Len(name) - k + 1) |-> Lower(name[k + j - 1])]

\* _resolve_path: ValueError unless the path string starts with the root's
ResolvePath(rel_path) ==
    LET abs_path == AbsPath(CONFIG_DIR, rel_path)
    IN IF ~StartsWith(PathStr(abs_path), PathStr(NormPath(CONFIG_DIR, <<>>)))
       THEN [exc |-> "ValueError", abs_path |-> abs_path, ext |-> <<>>]
       ELSE [exc |-> "none", abs_path |-> abs_path, ext |-> SplitExt(abs_path)]

AbsPaths == {AbsPath(CONFIG_DIR, rel) : rel \in RelPaths}
YamlExt == {<<".", "y">>}
JsonExt == {<<".", "j">>}

NoFile == [exists |-> FALSE, doc |-> "none", len |-> 0]
EmptyFile == [exists |-> TRUE, doc |-> "none", len |-> 0]

\* no write_config in progress
NoWrite == [path |-> <<>>, rel |-> [abs |-> FALSE, parts |-> <<>>], doc |-> "none",
            prev |-> NoFile]

\* the answer of a handler: the value returned or the exception raised; the
\* config routes catch nothing, so an exception is answered 500
ConfigReply(op, rel_path, exc, detail, content) ==
    [op |-> op, rel |-> rel_path, exc |-> exc, detail |-> detail, content |-> content,
     http |-> IF exc = "none" THEN 200 ELSE 500]

\* no config request answered yet
NoReply == [op |-> "none", rel |-> [abs |-> FALSE, parts |-> <<>>], exc |-> "none",
            detail |-> "none", content |-> "none", http |-> 0]

\* the text of a file parsed as the extension says: an empty text is the empty
\* document, a text cut short is a JSON syntax error or some other YAML document
ParseText(file, ext) ==
    IF file.len = 0 THEN [exc |-> "none", content |-> "empty"]
    ELSE IF file.len = DocChunks THEN [exc |-> "none", content |-> file.doc]
    ELSE IF ext \in JsonExt THEN [exc |-> "JSONDecodeError", content |-> "none"]
    ELSE [exc |-> "none", content |-> "partial"]

\* read_config
ReadConfig(files, rel_path) ==
    LET r == ResolvePath(rel_path)
    IN IF r.exc # "none"
       THEN ConfigReply("get", rel_path, "ValueError", "traversal", "none")
       ELSE IF ~files[r.abs_path].exists
       THEN ConfigReply("get", rel_path, "FileNotFoundError", "missing", "none")
       ELSE IF r.ext \in YamlExt \cup JsonExt
       THEN LET parsed == ParseText(files[r.abs_path], r.ext)
            IN ConfigReply("get", rel_path, parsed.exc,
                           IF parsed.exc = "none" THEN "none" ELSE "parse", parsed.content)
       ELSE ConfigReply("get", rel_path, "ValueError", "unsupported", "none")

\* GET /config
GetConfig(rel_path) ==
    /\ cfg_reply' = ReadConfig(cfg_files, rel_path)
    /\ UNCHANGED <<ctl, tasks, db, fs, clock, streams, io, expected_total, ui, cfg_files, cfg_dirs, cfg_write>>

\* PUT /config up to open(abs_path, "w"): resolve, makedirs, then the file is
\* created or truncated; an unsupported extension raises after makedirs
PutConfigOpen(rel_path, content) ==
    /\ cfg_write = NoWrite
    /\ LET r == ResolvePath(rel_path)
       IN IF r.exc # "none"
          THEN /\ cfg_reply' = ConfigReply("put", rel_path, "ValueError", "traversal", "none")
               /\ UNCHANGED <<cfg_files, cfg_dirs, cfg_write>>
          ELSE /\ cfg_dirs' = cfg_dirs \cup {SubSeq(r.abs_path, 1, Len(r.abs_path) - 1)}
               /\ IF r.ext \in YamlExt \cup JsonExt
                  THEN /\ cfg_files' = [cfg_files EXCEPT ![r.abs_path] = EmptyFile]
                       /\ cfg_write' = [path |-> r.abs_path, rel |-> rel_path,
                                        doc |-> content, prev |-> cfg_files[r.abs_path]]
                       /\ cfg_reply' = cfg_reply
                  ELSE /\ cfg_reply' = ConfigReply("put", rel_path, "ValueError",
                                                   "unsupported", "none")
                       /\ UNCHANGED <<cfg_files, cfg_write>>
    /\ UNCHANGED <<ctl, tasks, db, fs, clock, streams, io, expected_total, ui>>

\* the dump flushes a piece of the document before the file is closed
PutConfigFlush ==
    /\ cfg_write # NoWrite
    /\ cfg_files[cfg_write.path].len + 1 < DocChunks
    /\ cfg_files' = [cfg_files EXCEPT ![cfg_write.path] =
                        [exists |-> TRUE, doc |-> cfg_write.doc, len |-> @.len + 1]]
    /\ UNCHANGED <<ctl, tasks, db, fs, clock, streams, io, expected_total, ui, cfg_dirs, cfg_write, cfg_reply>>

\* the with block ends: the rest is written, the file closed, content returned
PutConfigClose ==
    /\ cfg_write # NoWrite
    /\ cfg_files' = [cfg_files EXCEPT ![cfg_write.path] =
                        [exists |-> TRUE, doc |-> cfg_write.doc, len |-> DocChunks]]
    /\ cfg_reply' = ConfigReply("put", cfg_write.rel, "none", "none", cfg_write.doc)
    /\ cfg_write' = NoWrite
    /\ UNCHANGED <<ctl, tasks, db, fs, clock, streams, io, expected_total, ui, cfg_dirs>>

\* ---------------------------------------------------------------- progress
MaxExpected == 3                    \* largest expected total a caller sets
Totals == -1..MaxExpected           \* the total of POST /expected_total
RunIds == 1..2                      \* run ids of the case results and of GET /progress

\* max(0, int(total or 0))
ClampTotal(total) == IF total > 0 THEN total ELSE 0

\* set_expected_total
SetExpectedTotal(total) ==
    /\ expected_total' = ClampTotal(total)
    /\ UNCHANGED <<ctl, tasks, db, fs, clock, streams, io, cfg, ui>>

\* add_case_result(db, run_id, ..., status): a row of test_case_results
StoreCaseResult(run_id, status) ==
    /\ Work < MaxWork
    /\ case_results' = AddCaseResult(case_results, run_id, status)
    /\ UNCHANGED <<ctl, tasks, runs, batch_logs, fail_logs, fs, clock, streams, io, svc>>

\* round(x, 2) of x = 100.0 * completed / expected, in hundredths of a percent:
\* the nearest hundredth, the even one on a tie
RoundPercent(completed, expected) ==
    LET q == (10000 * completed) \div expected
        r == (10000 * completed) % expected
    IN IF 2 * r < expected THEN q
       ELSE IF 2 * r > expected THEN q + 1
       ELSE IF q % 2 = 0 THEN q ELSE q + 1

Min(a, b) == IF a <= b THEN a ELSE b

\* GET /progress without the min
Progress_Unclamped(expected, cr, run_id) ==
    LET c == CountCaseStatus(cr, run_id)
        completed == c[1] + c[2]
    IN [run_id |-> run_id, completed |-> completed, total |-> expected,
        percent |-> IF expected = 0 THEN 0 ELSE RoundPercent(completed, expected)]

\* GET /progress: completed, total, percent (in hundredths of a percent)
Progress(expected, cr, run_id) ==
    LET c == CountCaseStatus(cr, run_id)
        completed == IF expected = 0 THEN c[1] + c[2] ELSE Min(expected, c[1] + c[2])
    IN [run_id |-> run_id, completed |-> completed, total |-> expected,
        percent |-> IF expected = 0 THEN 0 ELSE RoundPercent(completed, expected)]

\* ------------------------------------------------------------- state store
\* A state map is a function on some of the keys; a value is a scalar or a
\* nested map, given as the set of its (key, scalar) items.
StateKeys == {"a", "b"}
NestedKeys == {"x", "y"}
Scalar(n) == [kind |-> "scalar", val |-> n, items |-> {}]
Nested(items) == [kind |-> "map", val |-> 0, items |-> items]
NestedMaps == {Nested({<<k, 1>> : k \in ks}) : ks \in SUBSET NestedKeys}
StateValues == {Scalar(1), Scalar(2)} \cup NestedMaps
StateMaps == UNION {[ks -> StateValues] : ks \in SUBSET StateKeys}
EmptyMap == [k \in {} |-> Scalar(1)]

\* an update that merges a nested map into the stored nested map
DictUpdate_Deep(old, new) ==
    [k \in DOMAIN old \cup DOMAIN new |->
        IF k \notin DOMAIN new THEN old[k]
        ELSE IF k \in DOMAIN old /\ old[k].kind = "map" /\ new[k].kind = "map"
        THEN Nested(old[k].items \cup new[k].items)
        ELSE new[k]]

\* dict.update: every key of new takes new's value, the others stay
DictUpdate(old, new) ==
    [k \in DOMAIN old \cup DOMAIN new |-> IF k \in DOMAIN new THEN new[k] ELSE old[k]]

\* dict(m): a new map with the same items
DictCopy(m) == [k \in DOMAIN m |-> m[k]]

\* get_state
GetState == DictCopy(app_state)

\* sync_state(new_state): update, then return a copy, under the store's lock
SyncState(new_state) ==
    /\ app_state' = DictUpdate(app_state, new_state)
    /\ sync_reply' = [arg |-> new_state, ret |-> DictCopy(app_state')]
    /\ UNCHANGED <<ctl, tasks, db, fs, clock, streams, io, cfg, expected_total>>

\* ------------------------------------------------- repository, called directly
MaxRows == 2                        \* rows created through create_test_run alone
Projects == {None, 1}               \* project=None or a name
CaseTotals == {0, 5}                \* total_cases given at creation
FinalArgs == {<<"passed", 5, 0>>, <<"failed", 4, 1>>, <<"error", 0, 0>>}

\* create_test_run(db, project, suite_name, total_cases, logs_path)
RepoCreate(ts, project, total_cases) ==
    /\ Len(runs) < MaxRows
    /\ clock' = ts
    /\ runs' = CreateTestRun(runs, project, None, total_cases, ts, ts)
    /\ UNCHANGED <<ctl, tasks, batch_logs, fail_logs, case_results, fs, streams, io, svc>>

\* finalize_test_run(db, run_id, status, passed, failed), on a known or unknown id
RepoFinalize(run_id, args) ==
    /\ runs' = FinalizeTestRun(runs, run_id, args[1], args[2], args[3], clock)
    /\ UNCHANGED <<ctl, tasks, batch_logs, fail_logs, case_results, fs, clock, streams,
                   io, svc>>

\* --------------------------------------------------------------------- next
Init ==
    /\ proc_task = None
    /\ stop_event = FALSE
    /\ current_run_id = None
    /\ current_log_file = None
    /\ tasks = <<>>
    /\ runs = <<>>
    /\ batch_logs = <<>>
    /\ fail_logs = <<>>
    /\ case_results = <<>>
    /\ log_dirs = {}
    /\ log_files = [ts \in Timestamps |-> <<>>]
    /\ clock = 0
    /\ streams = <<>>
    /\ faults = 0
    /\ cfg_files = [path \in AbsPaths |-> NoFile]
    /\ cfg_dirs = {}
    /\ cfg_write = NoWrite
    /\ cfg_reply = NoReply
    /\ expected_total = 0
    /\ app_state = EmptyMap
    /\ sync_reply = [arg |-> EmptyMap, ret |-> EmptyMap]

\* batch is read only when loop > 1
DoStartOk ==
    \E ts \in StartTimes, loop \in Loops :
        \E batch \in IF loop > 1 THEN BOOLEAN ELSE {FALSE} : StartOk(ts, loop, batch)
DoRecordCase == \E t \in TaskIds, st \in CaseStatus : RecordCase(t, st)
DoTaskBegin == \E t \in TaskIds : TaskBegin(t)
DoLoopTop == \E t \in TaskIds : LoopTop(t)
DoInvokeReturn == \E t \in TaskIds, rc \in {0, 1} : InvokeReturn(t, rc)
DoInvokeRaise == \E t \in TaskIds : InvokeRaise(t)
DoInvokeExit == \E t \in TaskIds : InvokeExit(t)
DoRecordCounts == \E t \in TaskIds : RecordCounts(t)
DoRecordCountsRaise == \E t \in TaskIds : RecordCountsRaise(t)
DoBatchLogRaise == \E t \in TaskIds : BatchLogRaise(t)
DoRecordFail == \E t \in TaskIds : RecordFail(t)
DoRecordFailRaise == \E t \in TaskIds : RecordFailRaise(t)
DoIterEnd == \E t \in TaskIds : IterEnd(t)
DoSleepDone == \E t \in TaskIds : SleepDone(t)
DoFinalize == \E t \in TaskIds : Finalize(t)
DoFinalizeRaise == \E t \in TaskIds : FinalizeRaise(t)
DoFinalLog == \E t \in TaskIds : FinalLog(t)
DoFinalLogRaise == \E t \in TaskIds : FinalLogRaise(t)
DoHandler == \E t \in TaskIds : Handler(t)
DoHandlerRaise == \E t \in TaskIds : HandlerRaise(t)
DoHandlerFinalize == \E t \in TaskIds : HandlerFinalize(t)
DoHandlerFinalizeRaise == \E t \in TaskIds : HandlerFinalizeRaise(t)
DoFinally == \E t \in TaskIds : Finally(t)
DoStreamPlaceholderEnd == \E s \in DOMAIN streams : StreamPlaceholderEnd(s)
DoStreamEmit == \E s \in DOMAIN streams : StreamEmit(s)
DoStreamEnd == \E s \in DOMAIN streams : StreamEnd(s)
DoStreamWait == \E s \in DOMAIN streams : StreamWait(s)

TaskStep ==
    \/ DoTaskBegin \/ DoLoopTop \/ DoInvokeReturn \/ DoInvokeRaise \/ DoInvokeExit
    \/ DoRecordCounts \/ DoRecordCountsRaise \/ DoBatchLogRaise \/ DoRecordFail
    \/ DoRecordFailRaise \/ DoIterEnd \/ DoSleepDone \/ DoFinalize \/ DoFinalizeRaise
    \/ DoFinalLog \/ DoFinalLogRaise \/ DoHandler \/ DoHandlerRaise
    \/ DoHandlerFinalize \/ DoHandlerFinalizeRaise \/ DoFinally

StreamStep ==
    \/ StreamOpen \/ DoStreamPlaceholderEnd \/ DoStreamEmit \/ DoStreamEnd \/ DoStreamWait

Request == StartRejected \/ DoStartOk \/ Stop

\* the controller and its execution task
Next == Request \/ TaskStep

Spec == Init /\ [][Next]_vars

\* the controller, its execution task and the case results the runner records
CaseNext == Request \/ DoRecordCase \/ TaskStep

CaseSpec == Init /\ [][CaseNext]_vars

\* the controller, its execution task and the log streams reading its files
StreamNext == Request \/ TaskStep \/ StreamStep

StreamSpec == Init /\ [][StreamNext]_vars

\* the event loop runs every ready task and generator; a request may never come
FairStreamSpec == StreamSpec /\ WF_vars(TaskStep) /\ WF_vars(StreamStep)

DoGetConfig == \E rel_path \in RelPaths : GetConfig(rel_path)
DoPutConfigOpen == \E rel_path \in RelPaths, content \in Docs : PutConfigOpen(rel_path, content)

\* the config routes: sync handlers, each request on a worker thread of its own
ConfigNext == DoGetConfig \/ DoPutConfigOpen \/ PutConfigFlush \/ PutConfigClose

ConfigSpec == Init /\ [][ConfigNext]_vars

DoSetExpectedTotal == \E total \in Totals : SetExpectedTotal(total)
DoStoreCaseResult == \E run_id \in RunIds, st \in CaseStatus : StoreCaseResult(run_id, st)

\* the expected total and the case results GET /progress is computed from
ProgressNext == DoSetExpectedTotal \/ DoStoreCaseResult

ProgressSpec == Init /\ [][ProgressNext]_vars

DoSyncState == \E new_state \in StateMaps : SyncState(new_state)

\* the state store
StateNext == DoSyncState

StateSpec == Init /\ [][StateNext]_vars

DoRepoCreate ==
    \E ts \in StartTimes, project \in Projects, total_cases \in CaseTotals :
        RepoCreate(ts, project, total_cases)
DoRepoFinalize == \E run_id \in 1..(MaxRows + 1), args \in FinalArgs : RepoFinalize(run_id, args)

\* the run repository on its own
RepoNext == DoRepoCreate \/ DoRepoFinalize

RepoSpec == Init /\ [][RepoNext]_vars

\* ------------------------------------------------------------------ claims
\* tasks that have been created and have not completed
Active == {t \in TaskIds : tasks[t].pc # "done"}

\* a run() request, accepted or rejected
StartAttempt == StartRejected \/ DoStartOk

\* some loop iteration of the run recorded a failure
RecordedFailure(run_id) ==
    \E k \in DOMAIN batch_logs :
        /\ batch_logs[k].run_id = run_id
        /\ batch_logs[k].message = "loop"
        /\ batch_logs[k].failed > 0

\* C1: a start issued while an execution task has not completed is answered
\* AlreadyRunning (HTTP 409) and leaves the active run identifier as it was,
\* the identifier of the run in progress.
C1_StartWhileActiveRejected ==
    /\ []((LoopIdle /\ Active # {}) =>
            /\ RunResult.kind = "AlreadyRunning"
            /\ RunResult.http = 409)
    /\ [][(Active # {} /\ StartAttempt) =>
            /\ current_run_id' = current_run_id
            /\ \A t \in Active : current_run_id' = tasks[t].started]_vars

C1_Witness ==
    /\ LoopIdle
    /\ RunResult.http = 409
    /\ ENABLED StartRejected
    /\ \E t \in Active : tasks[t].started = current_run_id /\ tasks[t].pc = "invoking"

\* C2: in every reachable state at most one execution task is started and
\* not completed.
C2_AtMostOneActiveTask == Cardinality(Active) <= 1

C2_Witness ==
    /\ Len(tasks) >= 2
    /\ Cardinality(Active) = 1
    /\ ENABLED StartRejected
    /\ stop_event

\* C3: a Run record is created with status running, leaves it exactly once for
\* a terminal status by the time its task has completed, and never changes
\* status again, whatever way the task ends.
C3_ExactlyOneTransition ==
    /\ [][\A r \in DOMAIN runs' :
            IF r \in DOMAIN runs
            THEN runs[r].status \in Terminal => runs'[r].status = runs[r].status
            ELSE runs'[r].status = "running"]_vars
    /\ [](\A t \in TaskIds :
            tasks[t].pc = "done" => runs[tasks[t].started].status \in Terminal)

\* C4: after the loop the run is finalized stopped when the cancellation flag
\* is set, even if iterations recorded failures; otherwise failed when some
\* iteration recorded a failure and passed when none did.
C4_CancellationWins ==
    \A t \in TaskIds :
        tasks[t].pc = "final_log" =>
            runs[tasks[t].started].status =
                IF stop_event THEN "stopped"
                ELSE IF RecordedFailure(tasks[t].started) THEN "failed"
                ELSE "passed"

C4_Witness ==
    \E t \in TaskIds :
        /\ tasks[t].pc = "final_log"
        /\ stop_event
        /\ RecordedFailure(tasks[t].started)
        /\ runs[tasks[t].started].status = "stopped"

\* C5: an exception raised during an execution task does not escape it: the
\* task completes, a RunnerError fail-log entry is recorded for the run, and
\* the run ends in status error.
C5_ExceptionRecorded ==
    \A t \in TaskIds :
        /\ tasks[t].exc # "escaped"
        /\ (tasks[t].pc = "done" /\ tasks[t].exc = "caught") =>
              /\ runs[tasks[t].started].status = "error"
              /\ \E k \in DOMAIN fail_logs :
                    /\ fail_logs[k].run_id = tasks[t].started
                    /\ fail_logs[k].error_type = "RunnerError"

\* C6: whenever no execution task is in progress (none started yet, or the
\* last one ended normally, cancelled or by an exception) the active run
\* identifier is empty, until the next successful start.
C6_RunIdClearedAtEnd == Active = {} => current_run_id = None

C6_Witness ==
    /\ Active = {}
    /\ \E t \in TaskIds : tasks[t].exc = "escaped"
    /\ current_run_id = None

\* C7 as stated: once a run has finished and none is active, the active run
\* identifier is empty and the cancellation flag is not set.
C7_ClearedTogether ==
    (Len(tasks) > 0 /\ Active = {}) => (current_run_id = None /\ ~stop_event)

\* C7 as amended: the step that completes a task clears the active run
\* identifier and leaves the cancellation flag as it is, and while no run is
\* active the identifier stays empty and the flag keeps its value; only a
\* successful start clears the flag.
C7_RunIdClearedFlagKept ==
    [][/\ (\E t \in Active : tasks'[t].pc = "done")
            => (current_run_id' = None /\ stop_event' = stop_event)
       /\ (Active = {} /\ Len(tasks') = Len(tasks))
            => (current_run_id' = None /\ stop_event' = stop_event)
       /\ (stop_event /\ ~stop_event') => Len(tasks') = Len(tasks) + 1]_vars

C7_Witness ==
    /\ Len(tasks) > 0
    /\ Active = {}
    /\ current_run_id = None
    /\ stop_event

\* C8: get_current_run returns the identifier the start returned while that
\* run's task has not completed, and none whenever no task is in progress.
C8_CurrentRunOnlyWhileActive ==
    LoopIdle =>
        /\ \A t \in Active : GetCurrentRun = tasks[t].started
        /\ Active = {} => GetCurrentRun = None

C8_Witness ==
    /\ LoopIdle
    /\ \E t \in Active : t = 2 /\ GetCurrentRun = tasks[t].started /\ tasks[t].started = 2

\* C9: a stop request made while no task is in progress is answered
\* stopped=false with a null run id; one made while a task is in progress is
\* answered stopped=true with that run's id.
C9_StopAnswer ==
    LoopIdle =>
        IF Active = {}
        THEN StopResult = StopAnswer(FALSE, None)
        ELSE \A t \in Active : StopResult = StopAnswer(TRUE, tasks[t].started)

C9_Witness ==
    /\ LoopIdle
    /\ Len(tasks) > 0
    /\ Active = {}
    /\ stop_event
    /\ StopResult = StopAnswer(FALSE, None)

\* C10: once the execution task has completed (normally, by cancellation or
\* by an exception), every stream that is open on a log file drains it and
\* ends.
C10_StreamEnds ==
    \A s \in StreamIds :
        (s \in DOMAIN streams /\ streams[s].pc = "open" /\ Active = {})
            ~> (s \in DOMAIN streams /\ streams[s].pc = "ended")

C12_RefinalizeKeepsTerminal ==
    /\ [](\A r \in DOMAIN runs :
            runs[r].status \in Terminal => runs[r].end_time # None)
    /\ [][\A r \in DOMAIN runs :
            runs[r].status \in Terminal =>
                /\ runs'[r].status = runs[r].status
                /\ runs'[r].passed = runs[r].passed
                /\ runs'[r].failed = runs[r].failed
                /\ runs'[r].end_time = runs[r].end_time]_vars

\* the path is the root directory or lies inside it
InsideRoot(path) ==
    Len(path) >= Len(CONFIG_DIR) /\ SubSeq(path, 1, Len(CONFIG_DIR)) = CONFIG_DIR

\* C13: a config request whose resolved path is neither the root nor inside
\* it (a sibling directory whose name begins with the root's name included)
\* is answered PathTraversal, and no file or directory outside the root is
\* created, truncated or written.
C13_EscapeRejected ==
    /\ \A path \in AbsPaths : ~InsideRoot(path) => cfg_files[path] = NoFile
    /\ \A dir \in cfg_dirs : InsideRoot(dir)
    /\ cfg_write # NoWrite => InsideRoot(cfg_write.path)
    /\ (cfg_reply # NoReply /\ ~InsideRoot(AbsPath(CONFIG_DIR, cfg_reply.rel))) =>
            (cfg_reply.exc = "ValueError" /\ cfg_reply.detail = "traversal")

\* C14: GET /config answers 404 for a missing file and 400 for an unsupported
\* extension or an escaping path, and PUT /config answers 400 for an
\* unsupported extension or an escaping path.
C14_ConfigErrorStatus ==
    /\ (cfg_reply.op = "get" /\ cfg_reply.exc = "FileNotFoundError") => cfg_reply.http = 404
    /\ (cfg_reply.op \in {"get", "put"} /\ cfg_reply.exc = "ValueError"
            /\ cfg_reply.detail \in {"unsupported", "traversal"}) => cfg_reply.http = 400

\* C15: a read_config that runs while a write_config of the same path is in
\* progress answers what it would answer on the complete previous file or on
\* the complete new file, never from an empty or partially written one.
C15_WholeFileWrite ==
    [][\A rel_path \in RelPaths :
        (/\ GetConfig(rel_path)
         /\ cfg_write # NoWrite
         /\ AbsPath(CONFIG_DIR, rel_path) = cfg_write.path) =>
            cfg_reply' \in
                { ReadConfig([cfg_files EXCEPT ![cfg_write.path] = cfg_write.prev], rel_path),
                  ReadConfig([cfg_files EXCEPT ![cfg_write.path] =
                                [exists |-> TRUE, doc |-> cfg_write.doc, len |-> DocChunks]],
                             rel_path) }]_vars

\* passed + failed case results of the run
Completed16(run_id) == CountWhere(case_results, run_id, {"passed", "failed"})

\* C16 as stated: percent is 0 when expected_total is 0 and exactly
\* 100 * min(expected_total, passed + failed) / expected_total otherwise; it
\* lies between 0 and 100 and completed never exceeds a non-zero expected_total.
C16_PercentExact ==
    \A run_id \in RunIds :
        LET pr == Progress(expected_total, case_results, run_id)
        IN /\ expected_total = 0 => pr.percent = 0
           /\ expected_total # 0 =>
                /\ pr.percent * expected_total
                       = 10000 * Min(expected_total, Completed16(run_id))
                /\ pr.completed <= expected_total
           /\ pr.percent >= 0 /\ pr.percent <= 10000

\* C16 as amended: percent is 0 when expected_total is 0 and otherwise the value
\* 100 * min(expected_total, passed + failed) / expected_total rounded to two
\* decimals (within half a hundredth of it); it lies between 0 and 100 and
\* completed never exceeds a non-zero expected_total.
C16_PercentRounded ==
    \A run_id \in RunIds :
        LET pr == Progress(expected_total, case_results, run_id)
            exact == 10000 * Min(expected_total, Completed16(run_id))
        IN /\ expected_total = 0 => pr.percent = 0
           /\ expected_total # 0 =>
                /\ 2 * (pr.percent * expected_total - exact) <= expected_total
                /\ 2 * (exact - pr.percent * expected_total) <= expected_total
                /\ pr.completed = Min(expected_total, Completed16(run_id))
                /\ pr.completed <= expected_total
           /\ pr.percent >= 0 /\ pr.percent <= 10000
           /\ pr.total = expected_total

C16_Witness ==
    /\ expected_total = 3
    /\ Completed16(1) = 1
    /\ Progress(expected_total, case_results, 1).percent = 3333
    /\ Completed16(2) > expected_total
    /\ Progress(expected_total, case_results, 2).percent = 10000

\* C17: after sync_state(new) every key of new maps to exactly its value in
\* new (a nested map is replaced wholesale), every other key keeps its previous
\* value, and the map returned equals what get_state returns right afterwards.
C17_ShallowMerge ==
    [][\A new_state \in StateMaps :
        SyncState(new_state) =>
            /\ DOMAIN app_state' = DOMAIN app_state \cup DOMAIN new_state
            /\ \A k \in DOMAIN new_state : app_state'[k] = new_state[k]
            /\ \A k \in DOMAIN app_state \ DOMAIN new_state : app_state'[k] = app_state[k]
            /\ sync_reply'.ret = GetState']_vars

C17_Witness ==
    /\ DOMAIN sync_reply.arg = {"b"}
    /\ sync_reply.arg["b"] = Nested({<<"y", 1>>})
    /\ app_state["b"] = Nested({<<"y", 1>>})
    /\ "a" \in DOMAIN app_state
    /\ sync_reply.ret = app_state

\* C18: finalize_test_run changes only end time, status, passed and failed of
\* the named run: its total_cases, start time, project, suite and logs path
\* stay as created, no other run changes, and get_run_stats then returns
\* (total_cases given at creation, passed, failed).
C18_FinalizeFrame ==
    [][\A run_id \in 1..(MaxRows + 1), args \in FinalArgs :
        RepoFinalize(run_id, args) =>
            /\ DOMAIN runs' = DOMAIN runs
            /\ \A r \in DOMAIN runs :
                /\ r # run_id => runs'[r] = runs[r]
                /\ runs'[r].total_cases = runs[r].total_cases
                /\ runs'[r].start_time = runs[r].start_time
                /\ runs'[r].project = runs[r].project
                /\ runs'[r].suite_name = runs[r].suite_name
                /\ runs'[r].logs_path = runs[r].logs_path
            /\ run_id \in DOMAIN runs =>
                GetRunStats(runs', run_id) = <<runs[run_id].total_cases, args[2], args[3]>>]_vars

C18_Witness ==
    /\ Len(runs) = 2
    /\ runs[1].status = "running"
    /\ runs[2].status = "failed"
    /\ runs[2].total_cases = 5
    /\ runs[2].project = 1
    /\ GetRunStats(runs, 2) = <<5, 4, 1>>

\* invocations of the run that returned, by the lines they left in the log
ReturnedWith(run_id, m) ==
    Cardinality(UNION {{<<d, k>> : k \in {j \in DOMAIN log_files[d] :
                                    log_files[d][j] = [run |-> run_id, msg |-> m]}} :
                       d \in Timestamps})

Returned(run_id) == ReturnedWith(run_id, RcLine(0)) + ReturnedWith(run_id, RcLine(1))

\* iterations of the run whose counts were recorded
Recorded(run_id) ==
    Cardinality({k \in DOMAIN batch_logs :
                    batch_logs[k].run_id = run_id /\ batch_logs[k].message = "loop"})

\* C19: once the cancellation flag is set for an active run its task starts no
\* further invocation; the stop itself changes nothing of the task, the
\* invocation in progress can still return, and when the loop is left every
\* invocation that returned has had its counts recorded.
C19_CooperativeStop ==
    /\ [][\A t \in TaskIds :
            (stop_event /\ tasks[t].pc # "invoking") => tasks'[t].pc # "invoking"]_vars
    /\ [][(~stop_event /\ stop_event') =>
            (tasks' = tasks /\ runs' = runs /\ batch_logs' = batch_logs
             /\ log_files' = log_files)]_vars
    /\ [](\A t \in TaskIds :
            /\ (LoopIdle /\ tasks[t].pc = "invoking") => ENABLED InvokeReturn(t, 0)
            /\ tasks[t].pc = "finalize" =>
                    Returned(tasks[t].started) = Recorded(tasks[t].started))

C19_Witness ==
    \E t \in TaskIds :
        /\ tasks[t].pc = "finalize"
        /\ stop_event
        /\ tasks[t].i < tasks[t].iters
        /\ Returned(tasks[t].started) = 1
        /\ Recorded(tasks[t].started) = 1

\* C20: a successful start answers running with the new run's id, leaves the
\* cancellation flag clear and the new task not yet begun; the flag is set only
\* by a stop made while a run is active, and a run is finalized stopped or
\* leaves its loop early only with the flag set, so a stop made before a start
\* never cancels the run that start begins.
C20_StartClearsFlag ==
    /\ [][Len(tasks') = Len(tasks) + 1 =>
            /\ RunResult = RunAnswer("running", Len(runs'))
            /\ ~stop_event'
            /\ tasks'[Len(tasks')].pc = "created"
            /\ tasks'[Len(tasks')].started = Len(runs')
            /\ runs'[Len(runs')].status = "running"]_vars
    /\ [][(~stop_event /\ stop_event') =>
            (Active # {} /\ Len(tasks') = Len(tasks) /\ StopResult.kind = "stopped")]_vars
    /\ [][\A t \in TaskIds :
            /\ (runs[tasks[t].started].status # "stopped"
                    /\ runs'[tasks[t].started].status = "stopped") => stop_event
            /\ (tasks[t].pc = "loop_top" /\ tasks'[t].pc = "finalize"
                    /\ tasks[t].i < tasks[t].iters) => stop_event]_vars

C20_Witness ==
    /\ Len(tasks) = 2
    /\ runs[1].status = "stopped"
    /\ ~stop_event
    /\ tasks[2].pc = "final_log"
    /\ runs[2].status = "passed"
    /\ Recorded(2) = 1

\* C21: a stream that has opened a log file ends only in a state where the
\* cancellation flag is set, no execution task is in progress and every line
\* of the file has been read.
C21_EndsOnlyWhenDrained ==
    [][\A s \in DOMAIN streams :
        (streams[s].pc = "open" /\ streams'[s].pc = "ended") =>
            /\ stop_event
            /\ Active = {}
            /\ streams[s].pos = Len(log_files[streams[s].file])
            /\ streams'[s].chunks = streams[s].chunks]_vars

C21_Witness ==
    \E s \in DOMAIN streams :
        /\ streams[s].pc = "ended"
        /\ streams[s].file # None
        /\ streams[s].chunks >= 2
        /\ streams[s].pos = Len(log_files[streams[s].file])
        /\ stop_event
        /\ Active = {}

\* the lines of every log file are only ever appended to
AppendOnly ==
    \A d \in DOMAIN log_files :
        /\ d \in DOMAIN log_files'
        /\ Len(log_files'[d]) >= Len(log_files[d])
        /\ SubSeq(log_files'[d], 1, Len(log_files[d])) = log_files[d]

\* the stream s opens a file in this step: it starts at the end of the file
OpensAtEnd(s) ==
    /\ streams'[s].pc = "open"
    /\ streams'[s].chunks = 0
    /\ streams'[s].pos = Len(log_files[streams'[s].file])

\* the stream s reads in this step: the one line after its position, one chunk
EmitsNext(s) ==
    /\ streams[s].pos < Len(log_files[streams[s].file])
    /\ streams'[s].pos = streams[s].pos + 1
    /\ streams'[s].chunks = streams[s].chunks + 1
    /\ streams'[s].pc = "open"
    /\ \A o \in DOMAIN streams : o # s => streams'[o] = streams[o]

\* C22: a stream starts at the end of its file (no line that was there before is
\* emitted), log files only grow, every step of an open stream emits exactly the
\* next unread line as one chunk and leaves the other streams alone, and an
\* unread line can always be emitted once the event loop is idle.
C22_NoReplayEachLineOnce ==
    /\ [][/\ AppendOnly
          /\ \A s \in DOMAIN streams' :
                /\ (s \notin DOMAIN streams /\ streams'[s].file # None) => OpensAtEnd(s)
                /\ (s \in DOMAIN streams /\ streams[s].file # None) =>
                      /\ streams'[s].file = streams[s].file
                      /\ \/ /\ streams'[s].pos = streams[s].pos
                            /\ streams'[s].chunks = streams[s].chunks
                         \/ EmitsNext(s)]_vars
    /\ [](\A s \in DOMAIN streams :
            (LoopIdle /\ streams[s].pc = "open"
               /\ streams[s].pos < Len(log_files[streams[s].file]))
            => ENABLED (StreamEmit(s) /\ EmitsNext(s)))

C22_Witness ==
    \E s, o \in DOMAIN streams :
        /\ s # o
        /\ streams[s].file # None
        /\ streams[o].file = streams[s].file
        /\ streams[s].chunks >= 2
        /\ streams[o].chunks = 1
        /\ streams[s].pos - streams[s].chunks >= 1
        /\ streams[s].pos = Len(log_files[streams[s].file])
        /\ streams[o].pos = streams[s].pos

\* C23 as stated: with no case result recorded, the counts of every finalized
\* run are the numbers of its returned invocations with exit code 0 and with a
\* nonzero exit code.
C23_SyntheticCounts ==
    \A r \in DOMAIN runs :
        (runs[r].status \in Terminal /\ CountCaseStatus(case_results, r)[3] = 0) =>
            /\ runs[r].passed = ReturnedWith(r, RcLine(0))
            /\ runs[r].failed = ReturnedWith(r, RcLine(1))

\* C23 amended: the equality holds for every run finalized as passed, failed or
\* stopped; a run finalized as error carries the points counted before the
\* exception, which never exceed its returned invocations.
C23_SyntheticCountsUnlessError ==
    \A r \in DOMAIN runs :
        (runs[r].status \in Terminal /\ CountCaseStatus(case_results, r)[3] = 0) =>
            /\ runs[r].passed <= ReturnedWith(r, RcLine(0))
            /\ runs[r].failed <= ReturnedWith(r, RcLine(1))
            /\ runs[r].status # "error" =>
                  /\ runs[r].passed = ReturnedWith(r, RcLine(0))
                  /\ runs[r].failed = ReturnedWith(r, RcLine(1))
                  /\ runs[r].passed + runs[r].failed = Returned(r)

C23_Witness ==
    \E r \in DOMAIN runs :
        /\ runs[r].status = "failed"
        /\ runs[r].passed = 1
        /\ runs[r].failed = 1
        /\ Returned(r) = 2

\* the "loop" batch-log entries of a run, in the order they were appended
LoopEntries(run_id) ==
    SelectSeq(batch_logs, LAMBDA e : e.run_id = run_id /\ e.message = "loop")

\* C24: in a run of several iterations whose first iteration already counted
\* recorded case results (two or more, so not the one synthetic point), every
\* iteration adds only its own case results: the finalized passed and failed
\* are the numbers of passed and failed case results of the run.
C24_PerIterationCounts ==
    \A r \in DOMAIN runs :
        (/\ runs[r].status \in {"passed", "failed", "stopped"}
         /\ Len(LoopEntries(r)) >= 2
         /\ LoopEntries(r)[1].passed + LoopEntries(r)[1].failed >= 2) =>
            /\ runs[r].passed = CountCaseStatus(case_results, r)[1]
            /\ runs[r].failed = CountCaseStatus(case_results, r)[2]

\* a stop has answered stopped=true for the run while its task is in progress
StopAccepted(run_id) ==
    /\ stop_event
    /\ \E t \in TaskIds : tasks[t].started = run_id /\ tasks[t].pc # "done"

\* C25: a stop that answers stopped=true sets the cancellation flag for the run
\* in progress; the flag stays set as long as that run's task is in progress;
\* while it is set the run is not in status passed or failed; and a run's
\* status becomes passed or failed only by a step of its own task taken with
\* the flag clear, so a run for which stop answered true never ends passed or
\* failed.
C25_StoppedNeverPassedOrFailed ==
    /\ [][(Stop /\ StopResult.kind = "stopped") =>
            (stop_event' /\ StopAccepted(current_run_id)')]_vars
    /\ [][\A r \in DOMAIN runs : StopAccepted(r) => stop_event']_vars
    /\ [](\A r \in DOMAIN runs :
            StopAccepted(r) => runs[r].status \notin {"passed", "failed"})
    /\ [][\A r \in DOMAIN runs :
            (runs'[r].status \in {"passed", "failed"}
               /\ runs'[r].status # runs[r].status) =>
                  /\ ~stop_event
                  /\ \E t \in TaskIds : tasks[t].started = r /\ tasks[t].pc = "finalize"]_vars

C25_Witness ==
    \E t \in TaskIds :
        /\ tasks[t].pc = "done"
        /\ stop_event
        /\ tasks[t].iters = 1
        /\ Returned(tasks[t].started) = 1
        /\ ~RecordedFailure(tasks[t].started)
        /\ runs[tasks[t].started].status = "stopped"

\* the task whose step this is works for the run its start created
StepOfTaskFor(run_id) ==
    \E t \in TaskIds :
        /\ tasks[t].pc \notin {"created", "done"}
        /\ tasks[t].started = run_id
        /\ tasks'[t] # tasks[t]

\* C26: a task that has begun holds the id of the run its start returned, and
\* every batch-log entry, fail-log entry and update of an existing Run record
\* is made by a step of the task started for that very run; no task ends
\* through the early return for an empty id (a task that ended without an
\* exception has finalized its run).
C26_TaskWritesOwnRun ==
    /\ [](\A t \in TaskIds :
            /\ tasks[t].pc \notin {"created", "done"} => tasks[t].run_id = tasks[t].started
            /\ tasks[t].pc = "done" => tasks[t].exc # "none" \/
                                       runs[tasks[t].started].status # "running")
    /\ [][/\ \A k \in DOMAIN batch_logs' \ DOMAIN batch_logs :
                StepOfTaskFor(batch_logs'[k].run_id)
          /\ \A k \in DOMAIN fail_logs' \ DOMAIN fail_logs :
                StepOfTaskFor(fail_logs'[k].run_id)
          /\ \A r \in DOMAIN runs : runs'[r] # runs[r] => StepOfTaskFor(r)]_vars

C26_Witness ==
    \E t \in TaskIds :
        /\ tasks[t].started = 2
        /\ tasks[t].pc = "done"
        /\ runs[2].status = "failed"
        /\ runs[1].status = "passed"
        /\ \E k \in DOMAIN batch_logs : batch_logs[k].run_id = 2
        /\ \E k \in DOMAIN fail_logs : fail_logs[k].run_id = 2
        /\ \A k \in DOMAIN fail_logs : fail_logs[k].run_id # 1

\* the stream s was opened while a task was writing its file (it has emitted a
\* line), the file is that of a run that was stopped, every task writing it has
\* completed, and the stream has read every line of it
DrainedAfterStop(s) ==
    /\ streams[s].pc = "open"
    /\ streams[s].chunks >= 1
    /\ streams[s].pos = Len(log_files[streams[s].file])
    /\ \E t \in TaskIds :
          /\ runs[tasks[t].started].logs_path = streams[s].file
          /\ runs[tasks[t].started].status = "stopped"
    /\ \A t \in TaskIds :
          runs[tasks[t].started].logs_path = streams[s].file => tasks[t].pc = "done"

\* C27: a stream opened during a run that has since been stopped and has
\* completed, and that has read the whole file, can end, whatever has been
\* started since.
C27_EndsDespiteLaterRun ==
    \A s \in DOMAIN streams :
        (LoopIdle /\ DrainedAfterStop(s)) => ENABLED StreamEnd(s)

\* C28: a stream opened while a run is active opens that run's log file at its
\* end; it is never answered with the placeholder.
C28_NoPlaceholderWhileActive ==
    [][\A s \in DOMAIN streams' \ DOMAIN streams :
          IsRunning => /\ streams'[s].pc = "open"
                       /\ streams'[s].file = current_log_file]_vars

\* C29: no two runs share a log directory, and the lines of a log file all come
\* from one run.
C29_OwnLogDirectory ==
    /\ \A r, q \in DOMAIN runs : r # q => runs[r].logs_path # runs[q].logs_path
    /\ \A d \in DOMAIN log_files :
          \A i, j \in DOMAIN log_files[d] : log_files[d][i].run = log_files[d][j].run

\* C30: a start made while a task is in progress is answered AlreadyRunning
\* (409) and is always possible without any change; the rejected start itself
\* leaves the Run records, log directories, log file path, cancellation flag,
\* expected total and tasks as they are; and while a task is in progress no
\* step creates a Run record or a log directory, moves the log file path,
\* clears the flag or replaces the task.
C30_RejectedStartChangesNothing ==
    /\ [][StartRejected =>
            /\ runs' = runs /\ log_dirs' = log_dirs /\ log_files' = log_files
            /\ current_log_file' = current_log_file /\ current_run_id' = current_run_id
            /\ stop_event' = stop_event /\ expected_total' = expected_total
            /\ proc_task' = proc_task /\ tasks' = tasks]_vars
    /\ [][IsRunning =>
            /\ Len(runs') = Len(runs) /\ log_dirs' = log_dirs
            /\ current_log_file' = current_log_file
            /\ (stop_event => stop_event')
            /\ proc_task' = proc_task /\ Len(tasks') = Len(tasks)]_vars
    /\ []((LoopIdle /\ IsRunning) =>
            /\ RunResult = RunAnswer("AlreadyRunning", None)
            /\ RunResult.http = 409
            /\ ENABLED (StartRejected /\ UNCHANGED vars))

C30_Witness ==
    /\ LoopIdle
    /\ IsRunning
    /\ stop_event
    /\ tasks[proc_task].pc = "invoking"
    /\ Len(runs) = 2
    /\ ENABLED StartRejected
====
